---- MODULE Spec2Model ----
(***************************************************************************)
(* A model of scripts/digest.py: the feed fetcher, the time/dedup filter,  *)
(* the SQLite cache store, the scoring client, the ranker, the renderer    *)
(* and the pipeline of main().                                             *)
(*                                                                         *)
(* Time is counted in whole hours since the epoch; datetime(1970,1,1), the *)
(* sentinel of an unparseable date, is hour 0.                             *)
(***************************************************************************)
EXTENDS Integers, Sequences, FiniteSets, TLC

\* ------------------------------------------------------------------ bounds
MaxRuns == 2         \* runs of main() in one behaviour
MaxItems == 2        \* items in one feed document
MaxArticles == 11    \* articles handed to score_articles in the scoring spec
MaxScored == 4       \* length of the scored set in the ranking spec
MaxOps == 5          \* calls and clock ticks in one behaviour of the cache spec
MaxSeen == 3         \* items of the one feed document in the filter spec
MaxUrls == 4         \* URLs a server can redirect to in the redirect spec
PoolSize == 1        \* workers of the pool in the pool spec, fewer than sources
MaxRating == 11      \* the largest rating the service returns in the rating spec

\* -------------------------------------------------------- program constants
FEED_CONCURRENCY == 10
BATCH_SIZE == 10
CATEGORY_TOP == 5
DETAILED_TOP == 3
CLEAN_DAYS == 30
DEFAULT_HOURS == 48
MAX_RETRIES == 2     \* max_retries of fetch_feed_with_retry
RATING_LOW == 1      \* the ratings the scoring prompt asks for: 1-10
RATING_HIGH == 10

None == -1           \* Python's None, where a timestamp is expected

Range(s) == {s[k] : k \in 1..Len(s)}

SeqsUpTo(S, n) == UNION {[1..k -> S] : k \in 0..n}

RECURSIVE SelectSeq2(_, _, _)
\* the subsequence of s whose elements x satisfy x[field] = val
SelectSeq2(s, field, val) ==
    IF s = <<>> THEN <<>>
    ELSE (IF Head(s)[field] = val THEN <<Head(s)>> ELSE <<>>)
         \o SelectSeq2(Tail(s), field, val)

\* --------------------------------------------------------------- registry
\* RSS_FEEDS abridged to two sources; FEED_FALLBACKS gives the first one a
\* fallback URL.  URLs are numbers local to a source.
Urls == {1, 2}

RSS_FEEDS ==
    << [name |-> "f1", xmlUrl |-> 1], [name |-> "f2", xmlUrl |-> 1] >>

FEED_FALLBACKS == [n \in {"f1"} |-> [fallback |-> 2]]

Feeds == 1..Len(RSS_FEEDS)

\* ------------------------------------------------------------ feed content
Links == {"a", "b"}

NoDate == -2          \* a date string no format of parse_date matches

\* parse_date: the hour a date string denotes, None when no format matches
parse_date(date_str) == IF date_str = NoDate THEN None ELSE date_str

\* parse_rss_items: a document is modelled by the entries the tag matching
\* finds in it, each with the title, link and date found in it ("" when the
\* tag is missing); a malformed or undecodable document is one that matches
\* none. An entry is kept 'if title or link' (lines 426 and 438).
parse_rss_items(xml) == SelectSeq(xml, LAMBDA e : e.title # "" \/ e.link # "")

RawItems == [title : {"t"}, link : Links, pubDate : {NoDate, 51, 52, 99}]

\* what a server may answer to one request
Responses(bodies) ==
    [kind : {"ok"}, body : bodies, loc : {0}]
    \cup [kind : {"redirect"}, body : {<<>>}, loc : Urls]
    \cup [kind : {"http", "transport", "timeout"}, body : {<<>>}, loc : {0}]

\* ------------------------------------------------------------ feed fetcher
\* the articles built from a response body (lines 524-540)
ArticlesOf(feed, xml) ==
    LET items == parse_rss_items(xml)
    IN  [k \in 1..Len(items) |->
            [link |-> items[k].link,
             pubDate |-> (IF parse_date(items[k].pubDate) = None
                          THEN 0 ELSE parse_date(items[k].pubDate)),
             sourceName |-> feed.name]]

\* urls_to_try as first built (lines 483-490)
InitialUrls(feed) ==
    IF feed.name \in DOMAIN FEED_FALLBACKS
       /\ FEED_FALLBACKS[feed.name].fallback # feed.xmlUrl
    THEN <<feed.xmlUrl, FEED_FALLBACKS[feed.name].fallback>>
    ELSE <<feed.xmlUrl>>

\* a handler that lets the error leave fetch_feed_with_retry
OnExceptionUncaught(urls, k) == [next |-> k + 1, raised |-> TRUE]

\* a handler after which the loop passes over the next candidate
OnExceptionSkip(urls, k) == [next |-> k + 2, raised |-> FALSE]

\* The outcome of one failed transport, TLS or timed-out request and of a
\* failed read: "except Exception" records the error and the loop goes on
\* (lines 553-555).
OnException(urls, k) == [next |-> k + 1, raised |-> FALSE]

\* a handler that goes on after a redirect without taking its location
OnHTTPErrorNoAppend(urls, r) ==
    IF r.kind = "redirect"
    THEN [urls |-> urls, stop |-> FALSE]
    ELSE [urls |-> urls, stop |-> TRUE]

\* a handler that goes on to the next candidate after any HTTP error
OnHTTPErrorGoOn(urls, r) ==
    IF r.kind = "redirect"
    THEN [urls |-> IF r.loc \in Range(urls) THEN urls ELSE Append(urls, r.loc),
          stop |-> FALSE]
    ELSE [urls |-> urls, stop |-> FALSE]

\* "except urllib.error.HTTPError" (lines 542-551): a redirect status with a
\* Location appends the location unless urls_to_try holds it and the loop
\* goes on; any other HTTP error breaks out of the loop
OnHTTPError(urls, r) ==
    IF r.kind = "redirect"
    THEN [urls |-> IF r.loc \in Range(urls) THEN urls ELSE Append(urls, r.loc),
          stop |-> FALSE]
    ELSE [urls |-> urls, stop |-> TRUE]

RECURSIVE TryUrls(_, _, _, _)
\* the loop "for attempt, url in enumerate(urls_to_try)" from candidate k on;
\* served[u] is the answer of the server to a request for u
TryUrls(feed, urls, k, served) ==
    IF k > Len(urls)
    THEN [raised |-> FALSE, articles |-> <<>>, tried |-> urls, attempts |-> k - 1]
    ELSE LET r == served[urls[k]]
         IN  CASE r.kind = "ok" ->
                    [raised |-> FALSE, articles |-> ArticlesOf(feed, r.body),
                     tried |-> urls, attempts |-> k]
               [] r.kind \in {"redirect", "http"} ->
                    IF OnHTTPError(urls, r).stop
                    THEN [raised |-> FALSE, articles |-> <<>>,
                          tried |-> OnHTTPError(urls, r).urls, attempts |-> k]
                    ELSE TryUrls(feed, OnHTTPError(urls, r).urls, k + 1, served)
               [] OTHER ->
                    IF OnException(urls, k).raised
                    THEN [raised |-> TRUE, articles |-> <<>>, tried |-> urls,
                          attempts |-> k]
                    ELSE TryUrls(feed, urls, OnException(urls, k).next, served)

fetch_feed_with_retry(feed, served) == TryUrls(feed, InitialUrls(feed), 1, served)

fetch_feed(feed, served) == fetch_feed_with_retry(feed, served)

\* ------------------------------------------------------------------- state
VARIABLES
    pc,              \* the position of main(), or of the operation under study
    run,             \* the number of the current run of main()
    now,             \* the wall clock, in hours
    args,            \* the parsed command line of the run
    web,             \* web[f][u]: what the server of source f answers for URL u
    db_articles,     \* table articles of cache.db: link -> fetched_at, None if absent
    db_last_run,     \* table last_run of cache.db, in id order
    last_run,        \* main's local last_run
    fut,             \* fut[f]: state of the future of source f in the pool
    fres,            \* fres[f]: what the future of source f holds
    all_articles,    \* fetch_all_feeds' all_articles, then main's
    counts,          \* success_count and fail_count of fetch_all_feeds
    recent_articles, \* main's recent_articles
    k_filter,        \* position of main's filter loop in all_articles
    i_score,         \* score_articles' loop variable i (0-based)
    scored_articles, \* score_articles' scored, then main's scored_articles
    sorted_articles, \* main's sorted_articles
    top_articles,    \* main's top_articles, which summarize_articles updates in place
    trends,          \* main's trends
    markdown,        \* main's markdown: <<>> until generated, then <<document>>
    output,          \* what the run wrote to args.output: <<>> or <<document>>
    status,          \* "running", then "exit0", "exit1" or the exception raised
    stages,          \* the stages the run has executed
    hist,            \* <<>>, or <<what the previous run was and admitted>>
    dropped,         \* the batches (by their i) whose reply failed or was unreadable
    calls            \* the log of the calls made on the cache store (cache spec)

vars == <<pc, run, now, args, web, db_articles, db_last_run, last_run, fut, fres,
          all_articles, counts, recent_articles, k_filter, i_score,
          scored_articles, sorted_articles, top_articles, trends, markdown,
          output, status, stages, hist, dropped, calls>>

fetchVars == <<fut, fres, all_articles, counts>>
dbVars == <<db_articles, db_last_run>>
laterVars == <<recent_articles, k_filter, i_score, scored_articles,
               sorted_articles, top_articles, trends, markdown, output, dropped,
               calls>>

\* --------------------------------------------------------- fetch_all_feeds
\* executor.submit for every feed (line 583): all futures are queued
SubmitAll ==
    /\ pc = "fetch"
    /\ pc' = "as_completed"
    /\ fut' = [f \in Feeds |-> "pending"]
    /\ fres' = [f \in Feeds |-> [raised |-> FALSE, articles |-> <<>>,
                                 tried |-> <<>>, attempts |-> 0]]
    /\ all_articles' = <<>>
    /\ counts' = [ok |-> 0, failed |-> 0, seen |-> <<>>]
    /\ stages' = stages \cup {"fetch"}
    /\ UNCHANGED <<run, now, args, web, dbVars, last_run, laterVars, status, hist>>

Running == {f \in Feeds : fut[f] = "running"}

\* a pool that starts a queued future whether or not a worker is free
WorkerStartUnbounded(f, max_workers) ==
    /\ pc = "as_completed"
    /\ fut[f] = "pending"
    /\ \A g \in Feeds : g < f => fut[g] # "pending"
    /\ fut' = [fut EXCEPT ![f] = "running"]
    /\ UNCHANGED <<pc, run, now, args, web, dbVars, last_run, fres, all_articles,
                   counts, laterVars, status, stages, hist>>

\* a free worker of a pool of max_workers takes the next queued future
WorkerStartOf(f, max_workers) ==
    /\ pc = "as_completed"
    /\ fut[f] = "pending"
    /\ \A g \in Feeds : g < f => fut[g] # "pending"
    /\ Cardinality(Running) < max_workers
    /\ fut' = [fut EXCEPT ![f] = "running"]
    /\ UNCHANGED <<pc, run, now, args, web, dbVars, last_run, fres, all_articles,
                   counts, laterVars, status, stages, hist>>

\* ThreadPoolExecutor(max_workers=FEED_CONCURRENCY), line 582
WorkerStart(f) == WorkerStartOf(f, FEED_CONCURRENCY)

\* the worker runs fetch_feed to its end
WorkerFinish(f) ==
    /\ pc = "as_completed"
    /\ fut[f] = "running"
    /\ fut' = [fut EXCEPT ![f] = "done"]
    /\ fres' = [fres EXCEPT ![f] = fetch_feed(RSS_FEEDS[f], web[f])]
    /\ UNCHANGED <<pc, run, now, args, web, dbVars, last_run, all_articles,
                   counts, laterVars, status, stages, hist>>

\* a loop body that starts all_articles anew when a source yields nothing
CollectReset(acc, cnt, f, res) ==
    IF res.raised \/ res.articles = <<>>
    THEN [all |-> <<>>, cnt |-> [cnt EXCEPT !.failed = @ + 1, !.seen = Append(@, f)]]
    ELSE [all |-> acc \o res.articles,
          cnt |-> [cnt EXCEPT !.ok = @ + 1, !.seen = Append(@, f)]]

\* what one turn of the as_completed loop does with a finished future
\* (lines 586-595)
Collect(acc, cnt, f, res) ==
    IF res.raised
    THEN [all |-> acc, cnt |-> [cnt EXCEPT !.failed = @ + 1, !.seen = Append(@, f)]]
    ELSE IF res.articles # <<>>
    THEN [all |-> acc \o res.articles,
          cnt |-> [cnt EXCEPT !.ok = @ + 1, !.seen = Append(@, f)]]
    ELSE [all |-> acc, cnt |-> [cnt EXCEPT !.failed = @ + 1, !.seen = Append(@, f)]]

\* as_completed yields a finished future and the loop body runs on it
AsCompleted(f) ==
    /\ pc = "as_completed"
    /\ fut[f] = "done"
    /\ fut' = [fut EXCEPT ![f] = "collected"]
    /\ all_articles' = Collect(all_articles, counts, f, fres[f]).all
    /\ counts' = Collect(all_articles, counts, f, fres[f]).cnt
    /\ UNCHANGED <<pc, run, now, args, web, dbVars, last_run, fres, laterVars,
                   status, stages, hist>>

\* the with block ends and fetch_all_feeds returns (lines 601-602)
FetchReturn ==
    /\ pc = "as_completed"
    /\ \A f \in Feeds : fut[f] = "collected"
    /\ pc' = "fetched"
    /\ UNCHANGED <<run, now, args, web, dbVars, last_run, fetchVars, laterVars,
                   status, stages, hist>>

\* ------------------------------------------------------------- cache store
\* Every operation opens the database anew; err says that the storage fails
\* in this call (no file, no table, locked or corrupt database).

\* init_cache has no handler: a storage error leaves it as an exception
init_cache(err) == [raised |-> err]

\* a SELECT without its WHERE clause: any row answers for the link
is_article_cachedAnyRow(arts, link, err) ==
    IF err THEN FALSE ELSE \E l \in DOMAIN arts : arts[l] # None

\* a link the table has no entry for has no row
is_article_cached(arts, link, err) ==
    IF err THEN FALSE ELSE link \in DOMAIN arts /\ arts[link] # None

\* an INSERT that is never committed
cache_articleNoCommit(arts, link, t, err) == arts

\* INSERT OR IGNORE; fetched_at defaults to CURRENT_TIMESTAMP
cache_article(arts, link, t, err) ==
    IF err \/ is_article_cached(arts, link, FALSE) THEN arts
    ELSE [l \in DOMAIN arts \cup {link} |-> IF l = link THEN t ELSE arts[l]]

\* SELECT timestamp FROM last_run ORDER BY id DESC LIMIT 1
get_last_run_time(runs, err) ==
    IF err \/ runs = <<>> THEN None ELSE runs[Len(runs)].timestamp

record_run(runs, articles_count, st, t, err) ==
    IF err THEN runs
    ELSE Append(runs, [timestamp |-> t, articles_count |-> articles_count,
                       status |-> st])

\* the two DELETEs of clean_old_cache, committed together
clean_old_cache(db, t, days, err) ==
    IF err THEN db
    ELSE [articles |-> [l \in DOMAIN db.articles |->
                          IF db.articles[l] # None /\ db.articles[l] < t - 24 * days
                          THEN None ELSE db.articles[l]],
          last_run |-> SelectSeq(db.last_run,
                                 LAMBDA r : ~(r.timestamp < t - 24 * days))]

\* -------------------------------------------------------------------- main
Now0 == 100

ArgsChoices ==
    [incremental : BOOLEAN, no_cache : BOOLEAN, api_key : BOOLEAN,
     hours : {DEFAULT_HOURS}, top_n : {1, 2}]

Elapses == {0, 50}

\* what the run leaves in hist when it ends
Summary ==
    [no_cache |-> args.no_cache, now |-> now, admitted |-> Len(recent_articles),
     storage_error |-> "storage_error" \in stages]

\* the run ends with status st
Exit(st) ==
    /\ pc' = "exit"
    /\ status' = st

\* the mark a failed storage call leaves in stages
StorageError(err) == IF err THEN {"storage_error"} ELSE {}

\* a new process: the command line is parsed (lines 1465-1504) and gives one
\* of choices
StartRunWith(choices) ==
    /\ pc \in {"idle", "exit"}
    /\ run < MaxRuns
    /\ run' = run + 1
    /\ \E e \in Elapses : now' = IF run = 0 THEN now ELSE now + e
    /\ args' \in choices
    /\ pc' = "init_cache"
    /\ status' = "running"
    /\ stages' = {}
    /\ last_run' = None
    /\ fut' = [f \in Feeds |-> "idle"]
    /\ fres' = [f \in Feeds |-> [raised |-> FALSE, articles |-> <<>>,
                                 tried |-> <<>>, attempts |-> 0]]
    /\ all_articles' = <<>>
    /\ counts' = [ok |-> 0, failed |-> 0, seen |-> <<>>]
    /\ recent_articles' = <<>>
    /\ k_filter' = 1
    /\ i_score' = 0
    /\ scored_articles' = <<>>
    /\ sorted_articles' = <<>>
    /\ top_articles' = <<>>
    /\ trends' = ""
    /\ markdown' = <<>>
    /\ output' = <<>>
    /\ dropped' = {}
    /\ calls' = <<>>
    /\ hist' = IF run = 0 THEN <<>> ELSE <<Summary>>
    /\ UNCHANGED <<web, dbVars>>

StartRun == StartRunWith(ArgsChoices)

\* lines 1538-1557: the cache is initialised and the API key is checked
MainInitCache ==
    /\ pc = "init_cache"
    /\ IF args.no_cache
       THEN /\ UNCHANGED stages
            /\ IF ~args.api_key THEN Exit("exit1")
               ELSE pc' = "incremental" /\ UNCHANGED status
       ELSE \E err \in BOOLEAN :
              /\ stages' = stages \cup {"init_cache"} \cup StorageError(err)
              /\ IF init_cache(err).raised THEN Exit("sqlite3.Error")
                 ELSE IF ~args.api_key THEN Exit("exit1")
                 ELSE pc' = "incremental" /\ UNCHANGED status
    /\ UNCHANGED <<run, now, args, web, dbVars, last_run, fetchVars, laterVars, hist>>

\* lines 1562-1571.  The name timezone is local to main (it is bound by the
\* import of line 1581), so line 1566 reads it unbound and raises
\* UnboundLocalError whenever get_last_run_time returned a timestamp; the
\* lines 1567-1571 that widen args.hours are never reached.
MainIncremental ==
    /\ pc = "incremental"
    /\ IF args.incremental /\ ~args.no_cache
       THEN \E err \in BOOLEAN :
              /\ last_run' = get_last_run_time(db_last_run, err)
              /\ stages' = stages \cup {"incremental"} \cup StorageError(err)
              /\ IF get_last_run_time(db_last_run, err) # None
                 THEN Exit("UnboundLocalError")
                 ELSE pc' = "fetch" /\ UNCHANGED status
       ELSE /\ pc' = "fetch"
            /\ UNCHANGED <<last_run, status, stages>>
    /\ UNCHANGED <<run, now, args, web, dbVars, fetchVars, laterVars, hist>>

RECURSIVE CollectAll(_, _, _, _)
\* the as_completed loop over the futures in the order they complete
CollectAll(order, j, served, acc) ==
    IF j > Len(order) THEN acc
    ELSE CollectAll(order, j + 1, served,
                    Collect(acc.all, acc.cnt, order[j],
                            fetch_feed(RSS_FEEDS[order[j]], served[order[j]])))

\* fetch_all_feeds, the futures completing in the given order
fetch_all_feeds(served, order) ==
    CollectAll(order, 1, served,
               [all |-> <<>>, cnt |-> [ok |-> 0, failed |-> 0, seen |-> <<>>]])

CompletionOrders ==
    {o \in [1..Len(RSS_FEEDS) -> Feeds] : \A f \in Feeds : \E j \in DOMAIN o : o[j] = f}

\* line 1573: the whole fetch stage, in some completion order of the workers
MainFetch ==
    /\ pc = "fetch"
    /\ \E order \in CompletionOrders :
         /\ all_articles' = fetch_all_feeds(web, order).all
         /\ counts' = fetch_all_feeds(web, order).cnt
         /\ fres' = [f \in Feeds |-> fetch_feed(RSS_FEEDS[f], web[f])]
    /\ fut' = [f \in Feeds |-> "collected"]
    /\ pc' = "fetched"
    /\ stages' = stages \cup {"fetch"}
    /\ UNCHANGED <<run, now, args, web, dbVars, last_run, laterVars, status, hist>>

\* lines 1575-1578
MainFetched ==
    /\ pc = "fetched"
    /\ IF all_articles = <<>>
       THEN /\ \E err \in BOOLEAN :
                 /\ db_last_run' = record_run(db_last_run, 0, "no_articles", now, err)
                 /\ stages' = stages \cup {"record_run"} \cup StorageError(err)
            /\ Exit("exit1")
       ELSE /\ pc' = "filter"
            /\ UNCHANGED <<db_last_run, status, stages>>
    /\ UNCHANGED <<run, now, args, web, db_articles, last_run, fetchVars, laterVars,
                   hist>>

\* a time filter that leaves out the article published at the cutoff
InWindowExclusive(pub_date, cutoff) == pub_date > cutoff

\* the time filter of line 1596
InWindow(pub_date, cutoff) == pub_date >= cutoff

\* one turn of the loop of lines 1587-1607 (cutoff is set at line 1582)
MainFilterStep ==
    /\ pc = "filter"
    /\ k_filter <= Len(all_articles)
    /\ k_filter' = k_filter + 1
    /\ LET a == all_articles[k_filter]
           cutoff == now - args.hours
       IN  IF InWindow(a.pubDate, cutoff)
           THEN IF args.incremental /\ ~args.no_cache
                THEN \E e1 \in BOOLEAN :
                       IF is_article_cached(db_articles, a.link, e1)
                       THEN /\ stages' = stages \cup {"filter"} \cup StorageError(e1)
                            /\ UNCHANGED <<recent_articles, db_articles>>
                       ELSE \E e2 \in BOOLEAN :
                            /\ db_articles' = cache_article(db_articles, a.link, now, e2)
                            /\ recent_articles' = Append(recent_articles, a)
                            /\ stages' = stages \cup {"filter"}
                                          \cup StorageError(e1 \/ e2)
                ELSE /\ recent_articles' = Append(recent_articles, a)
                     /\ stages' = stages \cup {"filter"}
                     /\ UNCHANGED db_articles
           ELSE /\ stages' = stages \cup {"filter"}
                /\ UNCHANGED <<recent_articles, db_articles>>
    /\ UNCHANGED <<pc, run, now, args, web, db_last_run, last_run, fetchVars, i_score,
                   scored_articles, sorted_articles, top_articles, trends, markdown,
                   output, status, hist,
                   dropped, calls>>

\* lines 1609-1616
MainFiltered ==
    /\ pc = "filter"
    /\ k_filter > Len(all_articles)
    /\ IF recent_articles = <<>>
       THEN Exit("exit1")
       ELSE pc' = "score" /\ UNCHANGED status
    /\ UNCHANGED <<run, now, args, web, dbVars, last_run, fetchVars, laterVars,
                   stages, hist>>

\* ----------------------------------------------------------- scoring client
Categories == {"ai-ml", "security", "engineering", "tools", "opinion", "other"}

\* CATEGORY_META in declaration order
CATEGORY_META == <<"ai-ml", "security", "engineering", "tools", "opinion", "other">>

\* One element of "results".  lacks names the key the element does not have
\* ("none": it has them all); scores holds the values of the scores object.
ResultItems(indexes, triples, cats) ==
    [index : indexes, scores : triples, category : cats,
     lacks : {"none", "index", "scores", "category", "keywords"}]

\* What one call of the rating service yields: "fail" when call_kimi raises,
\* "badjson" when parse_json_response raises, else the parsed results.
ScoreResponses(items, n) ==
    [kind : {"fail", "badjson"}, results : {<<>>}]
    \cup [kind : {"ok"}, results : SeqsUpTo(items, n)]

\* int(): the quotient cut off
PyTruncate(n, d) == n \div d

\* Python's round() of the quotient n / d of two positive integers
PyRound(n, d) ==
    LET q == n \div d
        r == n % d
    IN  IF 2 * r < d THEN q
        ELSE IF 2 * r > d THEN q + 1
        ELSE IF q % 2 = 0 THEN q ELSE q + 1

Sum3(t) == t[1] + t[2] + t[3]

\* articles[k] for a 0-based Python index k, negative ones counting from the
\* end; ok is FALSE where Python raises IndexError
PyIndex(articles, k) ==
    IF 0 <= k /\ k < Len(articles) THEN [ok |-> TRUE, at |-> k + 1]
    ELSE IF k < 0 /\ -k <= Len(articles) THEN [ok |-> TRUE, at |-> Len(articles) + k + 1]
    ELSE [ok |-> FALSE, at |-> 0]

\* the scored copy of an article (lines 726-731)
ScoredCopy(article, item) ==
    [link |-> article.link, pubDate |-> article.pubDate,
     sourceName |-> article.sourceName,
     score |-> PyRound(Sum3(item.scores), 3),
     scoreBreakdown |-> item.scores,
     category |-> item.category,
     titleZh |-> FALSE, summary |-> FALSE, reason |-> FALSE]

RECURSIVE ScoreItems(_, _, _, _, _)
\* the loop over result.get('results', []) from element j on (lines 723-732);
\* an exception ends it and leaves scored as it is by then (lines 733-734)
ScoreItems(articles, i, results, j, scored) ==
    IF j > Len(results) THEN scored
    ELSE LET item == results[j]
         IN  IF item.lacks = "index" THEN scored
             ELSE IF i + item.index < Len(articles)
             THEN IF ~PyIndex(articles, i + item.index).ok
                     \/ item.lacks \in {"scores", "category", "keywords"}
                  THEN scored
                  ELSE ScoreItems(articles, i, results, j + 1,
                         Append(scored,
                                ScoredCopy(articles[PyIndex(articles, i + item.index).at],
                                           item)))
             ELSE ScoreItems(articles, i, results, j + 1, scored)

\* one turn of the loop of score_articles on the batch that starts at i
ScoreBatch(articles, i, resp, scored) ==
    IF resp.kind # "ok" THEN scored
    ELSE ScoreItems(articles, i, resp.results, 1, scored)

\* the batch that starts at i (line 714), as 1-based positions of articles
BatchOf(articles, i) ==
    {k \in 1..Len(articles) : i < k /\ k <= i + BATCH_SIZE}

MainItems ==
    [index : {0, 1}, scores : {<<8, 7, 9>>}, category : {"ai-ml"},
     lacks : {"none", "category"}]

\* an element whose category is none of CATEGORY_META
MiscItem ==
    [index |-> 0, scores |-> <<8, 7, 9>>, category |-> "misc", lacks |-> "none"]

MainScoreResponses ==
    [kind : {"fail", "badjson"}, results : {<<>>}]
    \cup [kind : {"ok"},
          results : {<<>>, <<MiscItem>>} \cup [1..1 -> MainItems] \cup [1..2 -> MainItems]]

\* the reply is one the client cannot use: the call failed, the text is no
\* JSON, or an element meant for an article of the batch lacks a key
Unreadable(articles, i, resp) ==
    \/ resp.kind # "ok"
    \/ \E j \in 1..Len(resp.results) :
         /\ resp.results[j].lacks # "none"
         /\ \/ resp.results[j].lacks = "index"
            \/ i + resp.results[j].index + 1 \in BatchOf(articles, i)

\* a loop that asks again for a batch whose call failed
AfterBatchRetry(i, resp) == IF resp.kind = "fail" THEN i ELSE i + BATCH_SIZE

\* the start of the next batch: range(0, len(articles), BATCH_SIZE) goes on
\* whatever the reply was (lines 713 and 733-734)
AfterBatch(i, resp) == i + BATCH_SIZE

\* one turn of the loop of score_articles (lines 713-734), the service
\* answering with one of replies; when logged, the reply is kept in calls
ScoreTurn(replies, logged) ==
    /\ pc = "score"
    /\ i_score < Len(recent_articles)
    /\ \E resp \in replies :
         /\ scored_articles' = ScoreBatch(recent_articles, i_score, resp, scored_articles)
         /\ dropped' = IF Unreadable(recent_articles, i_score, resp)
                       THEN dropped \cup {i_score} ELSE dropped
         /\ calls' = IF logged
                     THEN Append(calls, [op |-> "score", i |-> i_score, resp |-> resp])
                     ELSE calls
         /\ i_score' = AfterBatch(i_score, resp)
    /\ stages' = stages \cup {"score"}
    /\ UNCHANGED <<pc, run, now, args, web, dbVars, last_run, fetchVars,
                   recent_articles, k_filter, sorted_articles, top_articles, trends,
                   markdown, output, status, hist>>

ScoreStep(replies) == ScoreTurn(replies, FALSE)

\* line 1620, one batch at a time
MainScoreStep == ScoreStep(MainScoreResponses)

\* main without the check of lines 1622-1624
MainScoredUnchecked ==
    /\ pc = "score"
    /\ i_score >= Len(recent_articles)
    /\ pc' = "rank"
    /\ UNCHANGED <<run, now, args, web, dbVars, last_run, fetchVars, laterVars,
                   status, stages, hist>>

\* score_articles returns; lines 1622-1624
MainScored ==
    /\ pc = "score"
    /\ i_score >= Len(recent_articles)
    /\ IF scored_articles = <<>>
       THEN Exit("exit1")
       ELSE pc' = "rank" /\ UNCHANGED status
    /\ UNCHANGED <<run, now, args, web, dbVars, last_run, fetchVars, laterVars,
                   stages, hist>>

\* ------------------------------------------------------------------ ranker
\* s[:n] for n >= 0
Take(s, n) == SubSeq(s, 1, IF n < Len(s) THEN n ELSE Len(s))

RECURSIVE InsertBeforeTies(_, _)
\* a placed before the elements of its own score: a sort that is not stable
InsertBeforeTies(s, a) ==
    IF s = <<>> THEN <<a>>
    ELSE IF Head(s).score > a.score
    THEN <<Head(s)>> \o InsertBeforeTies(Tail(s), a)
    ELSE <<a>> \o s

RECURSIVE InsertByScore(_, _)
\* a placed behind every element whose score is at least its own
InsertByScore(s, a) ==
    IF s = <<>> THEN <<a>>
    ELSE IF Head(s).score >= a.score
    THEN <<Head(s)>> \o InsertByScore(Tail(s), a)
    ELSE <<a>> \o s

RECURSIVE SortedByScore(_)
\* sorted(articles, key=lambda x: x.get('score', 0), reverse=True): Python's
\* sort is stable, also with reverse=True
SortedByScore(articles) ==
    IF articles = <<>> THEN <<>>
    ELSE InsertByScore(SortedByScore(SubSeq(articles, 1, Len(articles) - 1)),
                       articles[Len(articles)])

\* lines 1628-1629
MainRank ==
    /\ pc = "rank"
    /\ sorted_articles' = SortedByScore(scored_articles)
    /\ top_articles' = Take(SortedByScore(scored_articles), args.top_n)
    /\ pc' = "summarize"
    /\ UNCHANGED <<run, now, args, web, dbVars, last_run, fetchVars, recent_articles,
                   k_filter, i_score, scored_articles, trends, markdown, output,
                   status, stages, hist,
                   dropped, calls>>

\* -------------------------------------------------- summarizer and trends
\* One element of "summaries"; lacks names the first key it does not have.
SummaryItems(indexes) ==
    [index : indexes, lacks : {"none", "index", "titleZh", "summary", "reason"}]

SummaryResponses(items, n) ==
    [kind : {"fail", "badjson"}, summaries : {<<>>}]
    \cup [kind : {"ok"}, summaries : SeqsUpTo(items, n)]

\* lines 789-791 on one article: the keys are set in turn until one is missing
Annotate(article, item) ==
    [article EXCEPT
       !.titleZh = IF item.lacks # "titleZh" THEN TRUE ELSE @,
       !.summary = IF item.lacks \notin {"titleZh", "summary"} THEN TRUE ELSE @,
       !.reason = IF item.lacks = "none" THEN TRUE ELSE @]

RECURSIVE SummarizeItems(_, _, _)
\* the loop of lines 786-791 from element j on
SummarizeItems(articles, summaries, j) ==
    IF j > Len(summaries) THEN articles
    ELSE LET item == summaries[j]
         IN  IF item.lacks = "index" THEN articles
             ELSE IF item.index < Len(articles)
             THEN IF ~PyIndex(articles, item.index).ok THEN articles
                  ELSE LET at == PyIndex(articles, item.index).at
                           upd == [articles EXCEPT ![at] = Annotate(@, item)]
                       IN  IF item.lacks = "none"
                           THEN SummarizeItems(upd, summaries, j + 1)
                           ELSE upd
             ELSE SummarizeItems(articles, summaries, j + 1)

summarize_articles(articles, resp) ==
    IF articles = <<>> \/ resp.kind # "ok" THEN articles
    ELSE SummarizeItems(articles, resp.summaries, 1)

NoTrends == "no trends"       \* the fixed text of lines 823 and 833

\* an analyzer that hands on what the failed call left
analyze_trendsRaw(articles, resp) ==
    IF articles = <<>> THEN NoTrends ELSE IF resp = "fail" THEN "" ELSE "trends"

analyze_trends(articles, resp) ==
    IF articles = <<>> \/ resp = "fail" THEN NoTrends ELSE "trends"

\* the lines "Summarization error" (793) and "Trends analysis error" (832)
\* of the log
ErrorLine(failed, line) == IF failed THEN {line} ELSE {}

MainSummaryResponses ==
    [kind : {"fail", "badjson"}, summaries : {<<>>}]
    \cup [kind : {"ok"}, summaries : {<<[index |-> 0, lacks |-> "none"]>>}]

\* line 1630: top_articles is updated in place and returned
MainSummarize ==
    /\ pc = "summarize"
    /\ \E resp \in MainSummaryResponses :
         /\ top_articles' = summarize_articles(top_articles, resp)
         /\ stages' = stages \cup {"summarize"}
                        \cup ErrorLine(resp.kind # "ok", "summarize_error")
    /\ pc' = "trends"
    /\ UNCHANGED <<run, now, args, web, dbVars, last_run, fetchVars, recent_articles,
                   k_filter, i_score, scored_articles, sorted_articles, trends,
                   markdown, output, status, hist,
                   dropped, calls>>

\* line 1634
MainTrends ==
    /\ pc = "trends"
    /\ \E resp \in {"fail", "ok"} :
         /\ trends' = analyze_trends(top_articles, resp)
         /\ stages' = stages \cup {"trends"} \cup ErrorLine(resp = "fail", "trends_error")
    /\ pc' = "render"
    /\ UNCHANGED <<run, now, args, web, dbVars, last_run, fetchVars, recent_articles,
                   k_filter, i_score, scored_articles, sorted_articles, top_articles,
                   markdown, output, status, hist,
                   dropped, calls>>

\* ---------------------------------------------------------------- renderer
\* the category overview of lines 848-854 and 899-911: per category of
\* CATEGORY_META, the first CATEGORY_TOP articles of the category in sorted
\* order (an empty list: the category has no subsection)
CategoryOverview(sorted) ==
    [c \in Range(CATEGORY_META) |-> Take(SelectSeq2(sorted, "category", c), CATEGORY_TOP)]

generate_markdown(articles, trendText, hours, top_n, t) ==
    LET sorted == SortedByScore(articles)
        top == Take(sorted, top_n)
    IN  [date |-> t, hours |-> hours, top_n |-> top_n, trends |-> trendText,
         cards |-> Take(top, DETAILED_TOP),
         overview |-> CategoryOverview(sorted)]

\* a renderer that sorts the list it is given in place (articles.sort)
MainRenderInPlace ==
    /\ pc = "render"
    /\ markdown' = <<generate_markdown(top_articles, trends, args.hours, args.top_n, now)>>
    /\ top_articles' = SortedByScore(top_articles)
    /\ pc' = "write"
    /\ stages' = stages \cup {"render"}
    /\ UNCHANGED <<run, now, args, web, dbVars, last_run, fetchVars, recent_articles,
                   k_filter, i_score, scored_articles, sorted_articles,
                   trends, output, status, hist,
                   dropped, calls>>

\* line 1638: the renderer is given summarized, the annotated top-N subset
MainRender ==
    /\ pc = "render"
    /\ markdown' = <<generate_markdown(top_articles, trends, args.hours, args.top_n, now)>>
    /\ pc' = "write"
    /\ stages' = stages \cup {"render"}
    /\ UNCHANGED <<run, now, args, web, dbVars, last_run, fetchVars, recent_articles,
                   k_filter, i_score, scored_articles, sorted_articles, top_articles,
                   trends, output, status, hist,
                   dropped, calls>>

\* lines 1640-1666: the file is written, then the sinks are served (the run
\* is one with --feishu and --email)
MainWrite ==
    /\ pc = "write"
    /\ output' = markdown
    /\ stages' = stages \cup {"write", "deliver"}
    /\ pc' = "record"
    /\ UNCHANGED <<run, now, args, web, dbVars, last_run, fetchVars, recent_articles,
                   k_filter, i_score, scored_articles, sorted_articles, top_articles,
                   trends, markdown, status, hist,
                   dropped, calls>>

\* lines 1668-1672
MainRecord ==
    /\ pc = "record"
    /\ IF ~args.no_cache
       THEN \E err \in BOOLEAN :
              /\ db_last_run' = record_run(db_last_run, Len(top_articles), "success",
                                           now, err)
              /\ stages' = stages \cup {"record_run"} \cup StorageError(err)
       ELSE UNCHANGED <<db_last_run, stages>>
    /\ Exit("exit0")
    /\ UNCHANGED <<run, now, args, web, db_articles, last_run, fetchVars, laterVars,
                   hist>>

\* ------------------------------------------------------- pipeline behaviour
Failing == [u \in Urls |-> [kind |-> "transport", body |-> <<>>, loc |-> 0]]

Serving(body) == [u \in Urls |-> [kind |-> "ok", body |-> body, loc |-> 0]]

MainBodies ==
    {<<>>, <<[title |-> "t", link |-> "a", pubDate |-> 99]>>,
     <<[title |-> "t", link |-> "b", pubDate |-> 99]>>,
     <<[title |-> "t", link |-> "a", pubDate |-> 51]>>}

\* the content the sources serve during the runs
MainWebs ==
    [Feeds -> {Failing} \cup {Serving(b) : b \in MainBodies}]

\* the state of a process that has run nothing yet, on an empty database
Fresh ==
    /\ now = Now0
    /\ db_articles = [l \in Links |-> None]
    /\ db_last_run = <<>>
    /\ last_run = None
    /\ fut = [f \in Feeds |-> "idle"]
    /\ fres = [f \in Feeds |-> [raised |-> FALSE, articles |-> <<>>,
                                tried |-> <<>>, attempts |-> 0]]
    /\ all_articles = <<>>
    /\ counts = [ok |-> 0, failed |-> 0, seen |-> <<>>]
    /\ k_filter = 1
    /\ i_score = 0
    /\ sorted_articles = <<>>
    /\ top_articles = <<>>
    /\ trends = ""
    /\ markdown = <<>>
    /\ output = <<>>
    /\ status = "running"
    /\ stages = {}
    /\ hist = <<>>
    /\ dropped = {}
    /\ calls = <<>>

DefaultArgs ==
    [incremental |-> FALSE, no_cache |-> FALSE, api_key |-> TRUE,
     hours |-> DEFAULT_HOURS, top_n |-> 1]

Init ==
    /\ pc = "idle"
    /\ run = 0
    /\ args = DefaultArgs
    /\ web \in MainWebs
    /\ recent_articles = <<>>
    /\ scored_articles = <<>>
    /\ Fresh

Next ==
    \/ StartRun
    \/ MainInitCache
    \/ MainIncremental
    \/ MainFetch
    \/ MainFetched
    \/ MainFilterStep
    \/ MainFiltered
    \/ MainScoreStep
    \/ MainScored
    \/ MainRank
    \/ MainSummarize
    \/ MainTrends
    \/ MainRender
    \/ MainWrite
    \/ MainRecord

Spec == Init /\ [][Next]_vars

\* ------------------------------------------------------ pipeline properties
Raised == status \in {"UnboundLocalError", "sqlite3.Error"}

LaterStages == {"summarize", "trends", "render", "write", "deliver"}

CacheEnabled == ~args.no_cache

PastFilter == "filter" \in stages /\ pc # "filter"

\* C3 (as claimed): a run with the cache enabled that no storage error
\* disturbs leaves a cache record for the link of every article it admitted;
\* and an incremental run that follows such a run at once, over the same feed
\* content, runs its filter stage and admits no article.
C3_IncrementalScenario ==
    /\ (CacheEnabled /\ PastFilter /\ "storage_error" \notin stages)
         => \A k \in 1..Len(recent_articles) :
                db_articles[recent_articles[k].link] # None
    /\ (/\ pc = "exit" /\ run >= 2 /\ hist # <<>>
        /\ args.incremental /\ CacheEnabled /\ args.api_key
        /\ "storage_error" \notin stages
        /\ ~hist[1].no_cache /\ ~hist[1].storage_error
        /\ hist[1].admitted >= 1 /\ hist[1].now = now)
         => ("filter" \in stages /\ recent_articles = <<>>)

\* C4 (as claimed): in incremental mode with the cache enabled, once a prior
\* run record of age g hours has been read, the run goes on to the fetch
\* stage with a window of at least g hours if g exceeds the configured window
\* h, and of h hours otherwise.
C4_WindowWidening ==
    (args.incremental /\ CacheEnabled /\ last_run # None)
      => /\ ~Raised
         /\ now - last_run > DEFAULT_HOURS => args.hours >= now - last_run
         /\ now - last_run <= DEFAULT_HOURS => args.hours = DEFAULT_HOURS

FetchedNone == "fetch" \in stages /\ pc # "fetched" /\ all_articles = <<>>

FilteredNone == PastFilter /\ recent_articles = <<>>

ScoredNone == "score" \in stages /\ pc # "score" /\ scored_articles = <<>>

\* C8: once the run has found that no article was fetched, or that none
\* passed the filter, or that none was scored, it has ended with status 1,
\* the output file is not written and none of summarization, trends,
\* rendering, writing and delivery has been executed.
C8_FatalConditions ==
    (FetchedNone \/ FilteredNone \/ ScoredNone)
      => /\ pc = "exit" /\ status = "exit1"
         /\ output = <<>> /\ markdown = <<>>
         /\ stages \cap LaterStages = {}

\* a run whose only scoring batch was dropped has ended with status 1
C8_Witness ==
    /\ pc = "exit" /\ status = "exit1"
    /\ recent_articles # <<>> /\ "score" \in stages /\ scored_articles = <<>>

\* C10 (as claimed): no storage error of a cache-store operation ends the
\* run with an exception.
C10_FailSoft == status # "sqlite3.Error"

NoSharedLink(s) ==
    \A i \in 1..Len(s) : \A j \in 1..Len(s) : i # j => s[i].link # s[j].link

\* C13 (as claimed): in plain and in incremental mode alike, no two admitted
\* articles, no two scored articles and no two ranked articles have the same
\* link.
C13_LinkIdentity ==
    /\ NoSharedLink(recent_articles)
    /\ NoSharedLink(scored_articles)
    /\ NoSharedLink(sorted_articles)

NotAnnotated(a) == ~a.titleZh /\ ~a.summary /\ ~a.reason

C29_OrderIndependent ==
    pc = "fetched" =>
      \A order \in CompletionOrders : all_articles = fetch_all_feeds(web, order).all

\* the step is one of a run started with --no-cache
NoCacheStep == pc \notin {"idle", "exit"} /\ args.no_cache

\* the step calls no operation of the cache store and leaves the cached
\* links and the run log as they were
NoStoreOperation ==
    /\ stages' \cap {"init_cache", "record_run", "storage_error"}
         = stages \cap {"init_cache", "record_run", "storage_error"}
    /\ db_articles' = db_articles
    /\ db_last_run' = db_last_run
    /\ last_run' = last_run

\* C30: a run started with --no-cache performs no cache-store operation on
\* any of its paths, the one that halts on zero fetched articles included,
\* and leaves the persisted cache and run log unchanged.
C30_NoCacheNoStore == [][NoCacheStep => NoStoreOperation]_vars

\* the records of successful runs in the run log
Successes == SelectSeq(db_last_run, LAMBDA r : r.status = "success")

\* C27: the anchor get_last_run_time hands to main is the timestamp of the
\* last successful run; a record with another status (the 'no_articles' one)
\* is never the anchor.
C27_AnchorIsLastSuccess ==
    last_run # None =>
      /\ Successes # <<>>
      /\ last_run = Successes[Len(Successes)].timestamp

\* ------------------------------------------------------------ fetch stage
\* The fetch stage alone, over every behaviour of the servers.
FetchBodies == SeqsUpTo({[title |-> "t", link |-> "a", pubDate |-> NoDate]}, MaxItems)

FetchWebs == [Feeds -> [Urls -> Responses(FetchBodies)]]

InitFetch ==
    /\ pc = "fetch"
    /\ run = 1
    /\ args = DefaultArgs
    /\ web \in FetchWebs
    /\ recent_articles = <<>>
    /\ scored_articles = <<>>
    /\ Fresh

NextFetch ==
    \/ SubmitAll
    \/ \E f \in Feeds : WorkerStart(f)
    \/ \E f \in Feeds : WorkerFinish(f)
    \/ \E f \in Feeds : AsCompleted(f)
    \/ FetchReturn

SpecFetch == InitFetch /\ [][NextFetch]_vars

Resolved(f) == fut[f] \in {"done", "collected"}

IsArticleList(l) ==
    \A k \in 1..Len(l) : l[k].link \in Links /\ l[k].pubDate >= 0

\* C1: whatever the servers do, every resolved source has returned a list
\* of articles (possibly empty) and not raised, and the fetch stage returns
\* to a run that is still running.
C1_FetchNeverRaises ==
    /\ \A f \in Feeds :
         Resolved(f) => ~fres[f].raised /\ IsArticleList(fres[f].articles)
    /\ pc = "fetched" => status = "running" /\ IsArticleList(all_articles)

\* the stage has returned although the first source timed out and failed on
\* its fallback and the second was redirected to an HTTP error
C1_Witness ==
    /\ pc = "fetched"
    /\ web[1][1].kind = "timeout" /\ web[1][2].kind = "transport"
    /\ web[2][1].kind = "redirect" /\ web[2][1].loc = 2 /\ web[2][2].kind = "http"
    /\ all_articles = <<>>

\* C2: when the stage returns, the articles of each source in the result
\* are those its own servers' answers yield, whatever the other sources did.
C2_Isolation ==
    pc = "fetched" =>
      \A f \in Feeds :
        SelectSeq2(all_articles, "sourceName", RSS_FEEDS[f].name)
          = fetch_feed(RSS_FEEDS[f], web[f]).articles

\* the first source failed on both its URLs after the second had delivered
\* its articles, which are in the result
C2_Witness ==
    /\ pc = "fetched"
    /\ web[1][1].kind = "timeout" /\ web[1][2].kind = "http"
    /\ counts.seen = <<2, 1>>
    /\ Len(all_articles) = Len(fres[2].articles) /\ Len(all_articles) >= 1

\* C20: a request answered with an HTTP error that is no redirect is the
\* last request made for its source, which resolves to an empty list without
\* raising, a fallback not yet tried included; every other source resolves
\* to what its own servers yield and its articles are in the result.
C20_HttpErrorStops ==
    /\ \A f \in Feeds :
         Resolved(f) =>
           /\ fres[f] = fetch_feed(RSS_FEEDS[f], web[f])
           /\ \A k \in 1..fres[f].attempts :
                web[f][fres[f].tried[k]].kind = "http" =>
                  /\ k = fres[f].attempts
                  /\ fres[f].articles = <<>>
                  /\ ~fres[f].raised
    /\ pc = "fetched" =>
         \A f \in Feeds :
           SelectSeq2(all_articles, "sourceName", RSS_FEEDS[f].name) = fres[f].articles

\* the first source got an HTTP error from its primary URL and made no
\* request for its fallback, which would have delivered an article; the
\* article of the second source is the result
C20_Witness ==
    /\ pc = "fetched"
    /\ web[1][1].kind = "http"
    /\ web[1][2].kind = "ok" /\ web[1][2].body # <<>>
    /\ fres[1].tried = <<1, 2>> /\ fres[1].attempts = 1 /\ fres[1].articles = <<>>
    /\ fres[2].articles # <<>>
    /\ all_articles = fres[2].articles

\* the worker pool taken step by step and fetch_all_feeds taken in one step
\* yield the same
FetchAtomic ==
    pc = "fetched" =>
      /\ all_articles = fetch_all_feeds(web, counts.seen).all
      /\ counts = fetch_all_feeds(web, counts.seen).cnt

\* ---------------------------------------------------------- scoring stage
\* score_articles alone, on lists of one or two batches.
Art(k) ==
    [link |-> IF k % 2 = 1 THEN "a" ELSE "b", pubDate |-> k, sourceName |-> "f1"]

ScoreInputs == {[k \in 1..n |-> Art(k)] : n \in 1..MaxArticles}

ScoreItemSet ==
    ResultItems({-1, 0, 1, BATCH_SIZE}, {<<8, 7, 9>>, <<1, 10, 10>>}, {"ai-ml"})

ScoreReplies ==
    [kind : {"fail", "badjson"}, results : {<<>>}]
    \cup [kind : {"ok"},
          results : {<<>>} \cup [1..1 -> ScoreItemSet] \cup [1..2 -> ScoreItemSet]]

InitScore ==
    /\ pc = "score"
    /\ run = 1
    /\ args = DefaultArgs
    /\ web = [f \in Feeds |-> Failing]
    /\ recent_articles \in ScoreInputs
    /\ scored_articles = <<>>
    /\ Fresh

ScoreStepAny == ScoreStep(ScoreReplies)

NextScore ==
    \/ ScoreStepAny
    \/ MainScored

SpecScore == InitScore /\ [][NextScore]_vars

SameArticle(x, a) ==
    x.link = a.link /\ x.pubDate = a.pubDate /\ x.sourceName = a.sourceName

\* C5 (as claimed): no article of a batch whose call failed or whose reply
\* could not be read is in the scored set.
C5_BatchDroppedWhole ==
    \A i \in dropped :
      \A k \in BatchOf(recent_articles, i) :
        \A j \in 1..Len(scored_articles) :
          ~SameArticle(scored_articles[j], recent_articles[k])

\* ---------------------------------------------------------- ranking stage
\* main from line 1626 on, over the scored sets score_articles can return:
\* up to MaxScored articles, each with one of three aggregate scores and one
\* of two categories.
RankItems ==
    [index : {0}, scores : {<<3, 3, 3>>, <<5, 5, 5>>, <<9, 9, 9>>},
     category : {"ai-ml", "security"}, lacks : {"none"}]

ScoredSets ==
    UNION {{[k \in 1..n |-> ScoredCopy(Art(k), f[k])] : f \in [1..n -> RankItems]} :
           n \in 1..MaxScored}

InitRank ==
    /\ pc = "rank"
    /\ run = 1
    /\ args \in [incremental : {FALSE}, no_cache : {FALSE}, api_key : {TRUE},
                 hours : {DEFAULT_HOURS}, top_n : {1, 2, 3}]
    /\ web = [f \in Feeds |-> Failing]
    /\ scored_articles \in ScoredSets
    /\ recent_articles = [k \in 1..Len(scored_articles) |-> Art(k)]
    /\ Fresh

NextRank ==
    \/ MainRank
    \/ MainSummarize
    \/ MainTrends
    \/ MainRender
    \/ MainWrite
    \/ MainRecord

SpecRank == InitRank /\ [][NextRank]_vars

Ranked == pc \in {"summarize", "trends", "render", "write", "record", "exit"}

Rendered == pc \in {"write", "record", "exit"} /\ markdown # <<>>

\* the place of a scored article in the scored set (Art(k) has pubDate k)
Encounter(a) == a.pubDate

Scores(s) == [k \in 1..Len(s) |-> s[k].score]

Ids(s) == [k \in 1..Len(s) |-> Encounter(s[k])]

\* C6: the ranking holds every scored article once, in descending order of
\* aggregate score, articles of equal score in the order of the scored set;
\* the top-N subset is its first N elements, and the cards of the document
\* are its first three.
C6_StableRanking ==
    Ranked =>
      /\ Len(sorted_articles) = Len(scored_articles)
      /\ \A k \in 1..Len(scored_articles) :
           \E j \in 1..Len(sorted_articles) : Encounter(sorted_articles[j]) = k
      /\ \A j \in 1..Len(sorted_articles) :
           /\ scored_articles[Encounter(sorted_articles[j])].score
                = sorted_articles[j].score
           /\ \A m \in (j + 1)..Len(sorted_articles) :
                \/ sorted_articles[j].score > sorted_articles[m].score
                \/ /\ sorted_articles[j].score = sorted_articles[m].score
                   /\ Encounter(sorted_articles[j]) < Encounter(sorted_articles[m])
      /\ Ids(top_articles) = Ids(Take(sorted_articles, args.top_n))
      /\ Rendered =>
           Ids(markdown[1].cards) = Ids(Take(sorted_articles,
                                             IF args.top_n < DETAILED_TOP
                                             THEN args.top_n ELSE DETAILED_TOP))

\* scores [3,9,5,9] with N = 2: the two articles of score 9, the second of
\* the scored set before the fourth
C6_Witness ==
    /\ Ranked
    /\ Scores(scored_articles) = <<3, 9, 5, 9>>
    /\ args.top_n = 2
    /\ Ids(top_articles) = <<2, 4>>

\* C7 (as claimed): the category overview of the document lists, for each
\* category, the first five articles of that category in the ranking of the
\* full scored set, whatever N is.
C7_OverviewOfFullSet ==
    Rendered =>
      \A c \in Range(CATEGORY_META) :
        Ids(markdown[1].overview[c])
          = Ids(Take(SelectSeq2(sorted_articles, "category", c), CATEGORY_TOP))

\* --------------------------------------------------------------- cache store
\* The three operations on the articles table, called in any order on one
\* database while the clock moves: is_article_cached and cache_article as
\* main calls them at lines 1599 and 1603, clean_old_cache as --clean-cache
\* calls it at line 1531.  Each call is logged in calls.
otherVars ==
    <<pc, run, args, web, last_run, fetchVars, recent_articles, k_filter, i_score,
      scored_articles, sorted_articles, top_articles, trends, markdown, output,
      status, stages, hist, dropped>>

\* a day, and a time longer than the retention of clean_old_cache
Ticks == {24, 24 * CLEAN_DAYS + 1}

CallExists ==
    /\ pc = "cache"
    /\ Len(calls) < MaxOps
    /\ \E l \in Links, err \in BOOLEAN :
         calls' = Append(calls, [op |-> "exists", link |-> l, err |-> err,
                                 result |-> is_article_cached(db_articles, l, err),
                                 removed |-> {}])
    /\ UNCHANGED <<now, dbVars, otherVars>>

CallRecord ==
    /\ pc = "cache"
    /\ Len(calls) < MaxOps
    /\ \E l \in Links, err \in BOOLEAN :
         /\ db_articles' = cache_article(db_articles, l, now, err)
         /\ calls' = Append(calls, [op |-> "record", link |-> l, err |-> err,
                                    result |-> FALSE, removed |-> {}])
    /\ UNCHANGED <<now, db_last_run, otherVars>>

CallPurge ==
    /\ pc = "cache"
    /\ Len(calls) < MaxOps
    /\ \E err \in BOOLEAN :
         LET db == clean_old_cache([articles |-> db_articles, last_run |-> db_last_run],
                                   now, CLEAN_DAYS, err)
         IN  /\ db_articles' = db.articles
             /\ db_last_run' = db.last_run
             /\ calls' = Append(calls,
                   [op |-> "purge", link |-> "", err |-> err, result |-> FALSE,
                    removed |-> {l \in Links : db_articles[l] # None
                                               /\ db.articles[l] = None}])
    /\ UNCHANGED <<now, otherVars>>

Tick ==
    /\ pc = "cache"
    /\ Len(calls) < MaxOps
    /\ \E d \in Ticks : now' = now + d
    /\ calls' = Append(calls, [op |-> "tick", link |-> "", err |-> FALSE,
                               result |-> FALSE, removed |-> {}])
    /\ UNCHANGED <<dbVars, otherVars>>

InitCache ==
    /\ pc = "cache"
    /\ run = 1
    /\ args = DefaultArgs
    /\ web = [f \in Feeds |-> Failing]
    /\ recent_articles = <<>>
    /\ scored_articles = <<>>
    /\ Fresh

NextCache ==
    \/ CallExists
    \/ CallRecord
    \/ CallPurge
    \/ Tick

SpecCache == InitCache /\ [][NextCache]_vars

RecordBetween(l, i, j) ==
    \E k \in (i + 1)..(j - 1) : calls[k].op = "record" /\ calls[k].link = l

RemovedBetween(l, i, j) ==
    \E k \in (i + 1)..(j - 1) : calls[k].op = "purge" /\ l \in calls[k].removed

IsExists(k, l) == calls[k].op = "exists" /\ calls[k].link = l

IsRecord(k, l) == calls[k].op = "record" /\ calls[k].link = l

\* C9 (as claimed): once exists(link) has returned false it returns false on
\* every later call with no record(link) in between, and after record(link)
\* it returns true on every call until a purge removes the record.
C9_DedupIdempotence ==
    \A l \in Links : \A i \in 1..Len(calls) : \A j \in (i + 1)..Len(calls) :
      /\ (IsExists(i, l) /\ ~calls[i].result /\ IsExists(j, l)
            /\ ~RecordBetween(l, i, j))
           => ~calls[j].result
      /\ (IsRecord(i, l) /\ IsExists(j, l) /\ ~RemovedBetween(l, i, j))
           => calls[j].result

\* C9 (amended): the same, for calls in which the storage does not fail: an
\* exists(link) that failed says nothing of the link, and a record(link) that
\* failed leaves nothing for a later exists(link) to find.
C9_DedupIdempotenceNoStorageError ==
    \A l \in Links : \A i \in 1..Len(calls) : \A j \in (i + 1)..Len(calls) :
      /\ (IsExists(i, l) /\ ~calls[i].err /\ ~calls[i].result /\ IsExists(j, l)
            /\ ~RecordBetween(l, i, j))
           => ~calls[j].result
      /\ (IsRecord(i, l) /\ ~calls[i].err /\ IsExists(j, l) /\ ~calls[j].err
            /\ ~RemovedBetween(l, i, j))
           => calls[j].result

\* false, then record, then true, and the record gone after a purge
\* that removed it
C9_Witness ==
    /\ Len(calls) = 5
    /\ IsExists(1, "a") /\ ~calls[1].err /\ ~calls[1].result
    /\ IsRecord(2, "a") /\ ~calls[2].err
    /\ IsExists(3, "a") /\ ~calls[3].err /\ calls[3].result
    /\ calls[4].op = "tick"
    /\ calls[5].op = "purge" /\ "a" \in calls[5].removed
    /\ db_articles["a"] = None

\* ------------------------------------------------------------ rating stage
\* score_articles on one batch of one or two articles, the service free to
\* return any rating from 0 to MaxRating, a category outside CATEGORY_META,
\* or an element without its category; every reply is logged.
Ratings == 0..MaxRating

RateItems ==
    [index : {0}, scores : Ratings \X Ratings \X Ratings,
     category : {"ai-ml", "misc"}, lacks : {"none", "category"}]

RatePairItems ==
    [index : {0, 1}, scores : {<<8, 7, 9>>}, category : {"ai-ml"},
     lacks : {"none", "category"}]

RateReplies ==
    [kind : {"ok"}, results : [1..1 -> RateItems] \cup [1..2 -> RatePairItems]]

InitRate ==
    /\ pc = "score"
    /\ run = 1
    /\ args = DefaultArgs
    /\ web = [f \in Feeds |-> Failing]
    /\ recent_articles \in {<<Art(1)>>, <<Art(1), Art(2)>>}
    /\ scored_articles = <<>>
    /\ Fresh

RateStep == ScoreTurn(RateReplies, TRUE)

NextRate ==
    \/ RateStep
    \/ MainScored

SpecRate == InitRate /\ [][NextRate]_vars

InRange(t) == \A k \in 1..3 : t[k] \in RATING_LOW..RATING_HIGH

\* the mean n / d rounded half-up
HalfUp(n, d) == (2 * n + d) \div (2 * d)

\* C11 (as claimed): whatever the service returns, the breakdown of every
\* scored article holds three integer ratings between 1 and 10 and its score
\* is their rounded mean, between 1 and 10.
C11_RatingsBounded ==
    \A j \in 1..Len(scored_articles) :
      /\ Len(scored_articles[j].scoreBreakdown) = 3
      /\ InRange(scored_articles[j].scoreBreakdown)
      /\ scored_articles[j].score = HalfUp(Sum3(scored_articles[j].scoreBreakdown), 3)
      /\ scored_articles[j].score \in RATING_LOW..RATING_HIGH

\* the elements of a logged reply that are meant for an article of the batch
\* and have no category
OmitsCategory(c, m) ==
    /\ c.resp.results[m].lacks = "category"
    /\ c.i + c.resp.results[m].index + 1 \in BatchOf(recent_articles, c.i)

\* C12 (as claimed): the category of every scored article is one of the six
\* of CATEGORY_META, and an article whose element of the reply has no
\* category is scored all the same, with category "other".
C12_CategoryEnum ==
    /\ \A j \in 1..Len(scored_articles) :
         scored_articles[j].category \in Range(CATEGORY_META)
    /\ \A n \in 1..Len(calls) : \A m \in 1..Len(calls[n].resp.results) :
         OmitsCategory(calls[n], m) =>
           \E j \in 1..Len(scored_articles) :
             /\ SameArticle(scored_articles[j],
                            recent_articles[calls[n].i + calls[n].resp.results[m].index + 1])
             /\ scored_articles[j].category = "other"

FilterItems ==
    [title : {"t"}, link : Links,
     pubDate : {NoDate, Now0 - DEFAULT_HOURS - 1, Now0 - DEFAULT_HOURS,
                Now0 - DEFAULT_HOURS + 1}]

FilterWebs ==
    {[f \in Feeds |-> IF f = 1 THEN Serving(b) ELSE Failing] :
       b \in SeqsUpTo(FilterItems, MaxSeen)}

InitFilter ==
    /\ pc = "fetch"
    /\ run = 1
    /\ args \in [incremental : BOOLEAN, no_cache : BOOLEAN, api_key : {TRUE},
                 hours : {DEFAULT_HOURS}, top_n : {1}]
    /\ web \in FilterWebs
    /\ recent_articles = <<>>
    /\ scored_articles = <<>>
    /\ Fresh

NextFilter ==
    \/ MainFetch
    \/ MainFetched
    \/ MainFilterStep
    \/ MainFiltered

SpecFilter == InitFilter /\ [][NextFilter]_vars

Cutoff == now - args.hours

LinksOf(s) == {s[k].link : k \in 1..Len(s)}

Listed ==
    Range(markdown[1].cards)
    \cup UNION {Range(markdown[1].overview[c]) : c \in Range(CATEGORY_META)}

\* the source served no item: its requests failed or its document matched none
Barren(f) == fetch_feed(RSS_FEEDS[f], web[f]).articles = <<>>

\* C16 (as claimed): every article the rendered document lists was delivered
\* by a source that resolved with articles, was published at or after the
\* cutoff, is in the scored set, and is an entry of the overview under the
\* category the service gave it; a source that served no item has no article
\* in the document and the run is not failed by it.
C16_EndToEnd ==
    (markdown # <<>>) =>
      /\ status \in {"running", "exit0"}
      /\ \A a \in Listed :
           /\ \E f \in Feeds :
                /\ RSS_FEEDS[f].name = a.sourceName
                /\ ~fres[f].raised
                /\ \E k \in 1..Len(fres[f].articles) : SameArticle(fres[f].articles[k], a)
           /\ a.pubDate >= now - args.hours
           /\ \E j \in 1..Len(scored_articles) :
                /\ SameArticle(scored_articles[j], a)
                /\ scored_articles[j].score = a.score
                /\ scored_articles[j].category = a.category
           /\ a.category \in Range(CATEGORY_META)
           /\ a \in Range(markdown[1].overview[a.category])
      /\ \A f \in Feeds :
           Barren(f) => \A a \in Listed : a.sourceName # RSS_FEEDS[f].name

\* ---------------------------------------------------------- redirect chains
\* The fetch stage with MaxUrls URLs per source, each answering with a
\* document, a redirect to any of the URLs, another HTTP error or a failed
\* transport.  One source at a time faces such servers; the requests of the
\* other one all fail.
ChainUrls == 1..MaxUrls

ChainResponses ==
    [kind : {"ok"}, body : {<<>>, <<[title |-> "t", link |-> "a", pubDate |-> NoDate]>>},
       loc : {0}]
    \cup [kind : {"redirect"}, body : {<<>>}, loc : ChainUrls]
    \cup [kind : {"http", "transport"}, body : {<<>>}, loc : {0}]

ChainFailing == [u \in ChainUrls |-> [kind |-> "transport", body |-> <<>>, loc |-> 0]]

ChainWebs ==
    {[f \in Feeds |-> IF f = g THEN w ELSE ChainFailing] :
       g \in Feeds, w \in [ChainUrls -> ChainResponses]}

InitChain ==
    /\ pc = "fetch"
    /\ run = 1
    /\ args = DefaultArgs
    /\ web \in ChainWebs
    /\ recent_articles = <<>>
    /\ scored_articles = <<>>
    /\ Fresh

NextChain ==
    \/ SubmitAll
    \/ \E f \in Feeds : WorkerStart(f)
    \/ \E f \in Feeds : WorkerFinish(f)
    \/ \E f \in Feeds : AsCompleted(f)
    \/ FetchReturn

SpecChain == InitChain /\ [][NextChain]_vars

\* the requests fetch_feed_with_retry made for source f, in order
Attempted(f) == SubSeq(fres[f].tried, 1, fres[f].attempts)

\* the answer to the k-th request for source f
Answer(f, k) == web[f][fres[f].tried[k]]

NoDuplicate(s) == \A i \in 1..Len(s) : \A j \in 1..Len(s) : i # j => s[i] # s[j]

\* C18 (as claimed): the number of URLs attempted for a source is at most
\* the candidates it starts with plus max_retries, whatever the servers answer.
C18_BoundedAttempts ==
    \A f \in Feeds :
      Resolved(f) =>
        fres[f].attempts <= Len(InitialUrls(RSS_FEEDS[f])) + MAX_RETRIES

\* the candidate list of a resolved source: it starts with the registered
\* URLs, every further element is the location of a redirect answered to an
\* earlier request, it holds no URL twice, and the requests made are its
\* first elements in order
CandidateList(f) ==
    /\ NoDuplicate(fres[f].tried)
    /\ fres[f].attempts <= Len(fres[f].tried)
    /\ SubSeq(fres[f].tried, 1, Len(InitialUrls(RSS_FEEDS[f]))) = InitialUrls(RSS_FEEDS[f])
    /\ \A p \in (Len(InitialUrls(RSS_FEEDS[f])) + 1)..Len(fres[f].tried) :
         \E k \in 1..fres[f].attempts :
           /\ k < p
           /\ Answer(f, k).kind = "redirect"
           /\ Answer(f, k).loc = fres[f].tried[p]

\* C19 (as claimed): the location of every redirect answered to a request is
\* in the candidate list and is attempted, the list holds no URL twice and
\* no URL is attempted twice.
C19_RedirectHandling ==
    \A f \in Feeds :
      Resolved(f) =>
        /\ CandidateList(f)
        /\ \A k \in 1..fres[f].attempts :
             Answer(f, k).kind = "redirect" =>
               Answer(f, k).loc \in Range(Attempted(f))

\* C19 (amended): the location of every redirect answered to a request is in
\* the candidate list, which holds no URL twice, and it is attempted unless
\* the loop ends before its turn: with a document read from, or an HTTP error
\* other than a redirect answered by, a candidate that stands before it.
C19_RedirectHandlingUntilLoopEnds ==
    \A f \in Feeds :
      Resolved(f) =>
        /\ CandidateList(f)
        /\ \A k \in 1..fres[f].attempts :
             Answer(f, k).kind = "redirect" =>
               /\ Answer(f, k).loc \in Range(fres[f].tried)
               /\ \/ Answer(f, k).loc \in Range(Attempted(f))
                  \/ Answer(f, fres[f].attempts).kind \in {"ok", "http"}

\* the second source was redirected from its URL to a second and from there
\* to a third, which it attempted; the third redirected back to the first,
\* which was not appended again
C19_Witness ==
    /\ Resolved(2)
    /\ web[2][1] = [kind |-> "redirect", body |-> <<>>, loc |-> 2]
    /\ web[2][2] = [kind |-> "redirect", body |-> <<>>, loc |-> 3]
    /\ web[2][3] = [kind |-> "redirect", body |-> <<>>, loc |-> 1]
    /\ fres[2].tried = <<1, 2, 3>>
    /\ fres[2].attempts = 3

\* C21: the requests made for a source are the first elements of its
\* candidate list in order: the primary URL, the registered fallback, then
\* the redirect locations in the order of the requests that found them.
\* Every request but the last met a failed transport or a redirect, so a
\* failed transport is followed by the request for the next candidate if
\* there is one; a candidate that answers with a document is the last one
\* requested and its items, even if there are none, are the result.
C21_CandidateOrder ==
    \A f \in Feeds :
      Resolved(f) =>
        /\ CandidateList(f)
        /\ fres[f].tried[1] = RSS_FEEDS[f].xmlUrl
        /\ \A p, q \in (Len(InitialUrls(RSS_FEEDS[f])) + 1)..Len(fres[f].tried) :
             p < q =>
               \E k \in 1..fres[f].attempts :
                 /\ Answer(f, k).kind = "redirect" /\ Answer(f, k).loc = fres[f].tried[p]
                 /\ \A m \in 1..k :
                      ~(Answer(f, m).kind = "redirect"
                        /\ Answer(f, m).loc = fres[f].tried[q])
        /\ \A k \in 1..fres[f].attempts :
             /\ k < fres[f].attempts => Answer(f, k).kind \in {"transport", "redirect"}
             /\ (Answer(f, k).kind = "transport" /\ k < Len(fres[f].tried))
                  => fres[f].attempts > k
             /\ Answer(f, k).kind = "ok" =>
                  /\ k = fres[f].attempts
                  /\ fres[f].articles = ArticlesOf(RSS_FEEDS[f], Answer(f, k).body)
        /\ (fres[f].attempts < Len(fres[f].tried)) =>
             Answer(f, fres[f].attempts).kind \in {"ok", "http"}

\* the primary URL of the first source redirected to a third URL, which
\* became the third candidate; the fallback, asked second, answered with a
\* document without items, and the third candidate, which would have
\* delivered an article, was never asked
C21_Witness ==
    /\ Resolved(1)
    /\ web[1][1] = [kind |-> "redirect", body |-> <<>>, loc |-> 3]
    /\ web[1][2] = [kind |-> "ok", body |-> <<>>, loc |-> 0]
    /\ web[1][3].kind = "ok" /\ web[1][3].body # <<>>
    /\ fres[1].tried = <<1, 2, 3>>
    /\ fres[1].attempts = 2
    /\ fres[1].articles = <<>>

\* ------------------------------------------------------------ worker pool
\* fetch_all_feeds with a pool of PoolSize workers, fewer than the sources of
\* the registry, so that a source waits in the queue of the pool; workers
\* and the as_completed loop are scheduled fairly, and every request ends
\* (urlopen is given a timeout).
InitPool == InitFetch

NextPool ==
    \/ SubmitAll
    \/ \E f \in Feeds : WorkerStartOf(f, PoolSize)
    \/ \E f \in Feeds : WorkerFinish(f)
    \/ \E f \in Feeds : AsCompleted(f)
    \/ FetchReturn

SpecPool == InitPool /\ [][NextPool]_vars /\ WF_vars(NextPool)

\* what holds of the pool at every moment: no more than PoolSize fetches are
\* in flight; a future is collected once; and when fetch_all_feeds has
\* returned every source has resolved, has been collected exactly once and
\* has the result its own servers yield
PoolSafe ==
    /\ Cardinality(Running) <= PoolSize
    /\ NoDuplicate(counts.seen)
    /\ Range(counts.seen) = {f \in Feeds : fut[f] = "collected"}
    /\ counts.ok + counts.failed = Len(counts.seen)
    /\ pc = "fetched" =>
         /\ \A f \in Feeds :
              fut[f] = "collected" /\ fres[f] = fetch_feed(RSS_FEEDS[f], web[f])
         /\ Len(counts.seen) = Len(RSS_FEEDS)

KeyedItem(idx) ==
    [index |-> idx, scores |-> <<8, 7, 9>>, category |-> "ai-ml", lacks |-> "none"]

KeyedReplies ==
    [kind : {"ok"},
     results : {<<KeyedItem(idx)>> : idx \in (-MaxArticles)..MaxArticles}
               \cup {<<KeyedItem(0), KeyedItem(0)>>}]

InitKeyed == InitScore

KeyedStep == ScoreTurn(KeyedReplies, TRUE)

NextKeyed ==
    \/ KeyedStep
    \/ MainScored

SpecKeyed == InitKeyed /\ [][NextKeyed]_vars

\* the scored copies the logged call c appended to the scored set
ScoredBy(c) == ScoreBatch(recent_articles, c.i, c.resp, <<>>)

\* C23 (as claimed): every article scored from the reply to a batch is an
\* article of that batch, whatever index the reply names.
C23_KeyedWithinBatch ==
    \A n \in 1..Len(calls) :
      \A j \in 1..Len(ScoredBy(calls[n])) :
        Encounter(ScoredBy(calls[n])[j]) \in BatchOf(recent_articles, calls[n].i)

\* ------------------------------------------------------------ service cost
\* A run from score_articles to its end, on 1 to MaxArticles admitted
\* articles; the requests for scores are logged.
CostReplies ==
    [kind : {"fail", "badjson"}, results : {<<>>}]
    \cup [kind : {"ok"}, results : {<<>>, <<KeyedItem(0)>>}]

InitCost == InitScore

CostStep == ScoreTurn(CostReplies, TRUE)

NextCost ==
    \/ CostStep
    \/ MainScored
    \/ MainRank
    \/ MainSummarize
    \/ MainTrends
    \/ MainRender
    \/ MainWrite
    \/ MainRecord

SpecCost == InitCost /\ [][NextCost]_vars

\* ceil(n / BATCH_SIZE)
Batches(n) == (n + BATCH_SIZE - 1) \div BATCH_SIZE

\* the starts of the batches of n articles
BatchStarts(n) == {BATCH_SIZE * (b - 1) : b \in 1..Batches(n)}

\* the batches are consecutive runs of at most BATCH_SIZE articles and every
\* article is in exactly one of them
Partitioned ==
    /\ \A i \in BatchStarts(Len(recent_articles)) :
         BatchOf(recent_articles, i)
           = {k \in 1..Len(recent_articles) : i + 1 <= k /\ k <= i + BATCH_SIZE}
    /\ \A k \in 1..Len(recent_articles) :
         Cardinality({i \in BatchStarts(Len(recent_articles)) :
                        k \in BatchOf(recent_articles, i)}) = 1

\* the n-th request is for the n-th batch, whatever the replies before it
\* were, and when score_articles has returned there was one request per batch
OnePerBatch ==
    /\ \A n \in 1..Len(calls) :
         /\ calls[n].i = BATCH_SIZE * (n - 1)
         /\ calls[n].i \in BatchStarts(Len(recent_articles))
    /\ i_score = BATCH_SIZE * Len(calls)
    /\ pc # "score" => Len(calls) = Batches(Len(recent_articles))

\* a request for summaries or for trends is made only by a run that has not
\* made one yet
OneEach ==
    /\ (pc = "summarize" /\ pc' # "summarize") => "summarize" \notin stages
    /\ (pc = "trends" /\ pc' # "trends") => "trends" \notin stages

\* C24: score_articles splits the n admitted articles into consecutive
\* batches of 10, each article in exactly one, and makes one request per
\* batch, ceil(n/10) in all, also after a failed one; the run makes at most
\* one request for summaries and at most one for trends.
C24_BoundedCost == [](Partitioned /\ OnePerBatch) /\ [][OneEach]_vars

\* a run on 11 articles whose first request for scores failed has made two
\* such requests, one for summaries and one for trends, and has ended
C24_Witness ==
    /\ pc = "exit" /\ status = "exit0"
    /\ Len(recent_articles) = 11
    /\ Len(calls) = 2
    /\ calls[1].resp.kind = "fail"
    /\ {"summarize", "trends"} \subseteq stages

\* ------------------------------------------------------------- feed entries
\* Lines 1573-1616 on documents whose entries may lack a title, a link or
\* both: the first source serves up to MaxItems entries, the second fails.
ParseEntries == [title : {"", "t"}, link : {"", "a"}, pubDate : {Now0 - 1}]

ParseWebs ==
    {[f \in Feeds |-> IF f = 1 THEN Serving(b) ELSE Failing] :
       b \in SeqsUpTo(ParseEntries, MaxItems)}

InitParse ==
    /\ pc = "fetch"
    /\ run = 1
    /\ args \in [incremental : BOOLEAN, no_cache : BOOLEAN, api_key : {TRUE},
                 hours : {DEFAULT_HOURS}, top_n : {1}]
    /\ web \in ParseWebs
    /\ recent_articles = <<>>
    /\ scored_articles = <<>>
    /\ Fresh

NextParse == NextFilter

SpecParse == InitParse /\ [][NextParse]_vars

\* C25: every article handed to the filter and to the scoring stage has a
\* non-empty link; an entry with a title and no link gives no article.
C25_NonEmptyLink ==
    /\ \A k \in 1..Len(all_articles) : all_articles[k].link # ""
    /\ \A k \in 1..Len(recent_articles) : recent_articles[k].link # ""

\* ---------------------------------------------------------------- renderer
\* generate_markdown called up to MaxCalls + 1 times by a caller that keeps
\* each document it gets, on any list of up to MaxRendered scored articles
\* in any order; between two calls the clock may advance and N may change.
MaxCalls == 2
MaxRendered == 2

RenderSets == {s \in ScoredSets : Len(s) <= MaxRendered}

InitRender ==
    /\ pc = "render"
    /\ run = 1
    /\ args \in [incremental : {FALSE}, no_cache : {FALSE}, api_key : {TRUE},
                 hours : {DEFAULT_HOURS}, top_n : {1, 2}]
    /\ web = [f \in Feeds |-> Failing]
    /\ now = Now0
    /\ db_articles = [l \in Links |-> None]
    /\ db_last_run = <<>>
    /\ last_run = None
    /\ fut = [f \in Feeds |-> "idle"]
    /\ fres = [f \in Feeds |-> [raised |-> FALSE, articles |-> <<>>,
                                tried |-> <<>>, attempts |-> 0]]
    /\ all_articles = <<>>
    /\ counts = [ok |-> 0, failed |-> 0, seen |-> <<>>]
    /\ recent_articles = <<>>
    /\ k_filter = 1
    /\ i_score = 0
    /\ scored_articles = <<>>
    /\ sorted_articles = <<>>
    /\ top_articles \in RenderSets
    /\ trends \in {NoTrends, "trends"}
    /\ markdown = <<>>
    /\ output = <<>>
    /\ status = "running"
    /\ stages = {}
    /\ hist = <<>>
    /\ dropped = {}
    /\ calls = <<>>

\* what a call was given and what it returned
Outcome ==
    [op |-> "render", articles |-> top_articles, trends |-> trends,
     hours |-> args.hours, top_n |-> args.top_n, t |-> now, doc |-> markdown[1]]

\* the caller keeps the document and gets ready to call again
RenderAgain ==
    /\ pc = "write"
    /\ Len(calls) < MaxCalls
    /\ calls' = Append(calls, Outcome)
    /\ \E e \in {0, 1}, n \in {1, 2} :
         /\ now' = now + e
         /\ args' = [args EXCEPT !.top_n = n]
    /\ pc' = "render"
    /\ UNCHANGED <<run, web, dbVars, last_run, fetchVars, recent_articles, k_filter,
                   i_score, scored_articles, sorted_articles, top_articles, trends,
                   markdown, output, status, stages, hist, dropped>>

NextRender ==
    \/ MainRender
    \/ RenderAgain

SpecRender == InitRender /\ [][NextRender]_vars

\* the documents returned so far, with what each call was given
Outcomes == calls \o (IF pc = "write" THEN <<Outcome>> ELSE <<>>)

SameInputs(c, e) ==
    /\ c.articles = e.articles
    /\ c.trends = e.trends
    /\ c.hours = e.hours
    /\ c.top_n = e.top_n
    /\ c.t = e.t

\* a call changes nothing of what it was given, nor anything else the
\* program holds
RenderFrame ==
    (pc = "render" /\ pc' = "write") =>
      /\ top_articles' = top_articles
      /\ trends' = trends
      /\ args' = args
      /\ now' = now
      /\ <<run, web, dbVars, last_run, fetchVars, recent_articles, k_filter, i_score,
           scored_articles, sorted_articles, output, status, hist, dropped,
           calls>>' =
         <<run, web, dbVars, last_run, fetchVars, recent_articles, k_filter, i_score,
           scored_articles, sorted_articles, output, status, hist, dropped,
           calls>>

Deterministic ==
    \A i \in 1..Len(Outcomes) : \A j \in 1..Len(Outcomes) :
      SameInputs(Outcomes[i], Outcomes[j]) => Outcomes[i].doc = Outcomes[j].doc

IncrementalArgs ==
    [incremental : {TRUE}, no_cache : {FALSE}, api_key : {TRUE},
     hours : {DEFAULT_HOURS}, top_n : {1, 2}]

StartIncremental == StartRunWith(IncrementalArgs)

InitIncremental == Init

NextIncremental ==
    \/ StartIncremental
    \/ MainInitCache
    \/ MainIncremental
    \/ MainFetch
    \/ MainFetched
    \/ MainFilterStep
    \/ MainFiltered
    \/ MainScoreStep
    \/ MainScored
    \/ MainRank
    \/ MainSummarize
    \/ MainTrends
    \/ MainRender
    \/ MainWrite
    \/ MainRecord

SpecIncremental == InitIncremental /\ [][NextIncremental]_vars

\* the links the cache holds
Cached == {l \in DOMAIN db_articles : db_articles[l] # None}

\* every article an incremental run has admitted so far has its link in the
\* cache: the record is written in the filter loop, before scoring starts
WrittenAtFilterTime ==
    (args.incremental /\ CacheEnabled)
      => \A k \in 1..Len(recent_articles) : recent_articles[k].link \in Cached

\* no step of a run removes a link from the cache or changes its record
NeverRemoved ==
    \A l \in Cached : l \in DOMAIN db_articles' /\ db_articles'[l] = db_articles[l]

\* the filter of an incremental run admits no article whose link is in the
\* cache, whichever run wrote it
ExcludedLater ==
    (pc = "filter" /\ args.incremental /\ CacheEnabled
       /\ recent_articles' # recent_articles)
      => all_articles[k_filter].link \notin Cached

\* no storage call of the run has failed, the step taken included
NoStorageError == "storage_error" \notin stages'

====
